---- MODULE Spec2Model ----
(***************************************************************************)
(* Model of gameServer/src/gameplay/Player.js: the per-player simulation   *)
(* of the splix game server (movement intents, trail and trail bounds,     *)
(* collisions, the death timers and the viewport edge chunks).             *)
(*                                                                         *)
(* A "world" W is the record [players, tiles, events]: players maps a      *)
(* player id to the private fields of its Player object, tiles is the      *)
(* arena ownership grid and events is the list of calls the operation made *)
(* on its collaborators (game, arena, connection), in call order.          *)
(***************************************************************************)
EXTENDS Integers, Sequences, FiniteSets, TLC

(* ---------------------------- bounds ----------------------------------- *)

\* arena.width / arena.height (config.js, not part of the sources)
ArenaWidth == 23
ArenaHeight == 23
\* largest dt * PLAYER_TRAVEL_SPEED handed to one loop() call, in tiles
MaxAdvance == 3
\* number of calls that change a player or the arena, per specification
MaxOps == 3
MaxSoloOps == 5
MaxDuelOps == 5
MaxPauseOps == 5
\* VIEWPORT_EDGE_CHUNK_SIZE and MIN_TILES_VIEWPORT_RECT_SIZE (config.js)
ChunkSize == 2
ViewportSize == 3
\* tiles filled around the spawn position by arena.fillPlayerSpawn
SpawnRadius == 1
\* SKINS_COUNT (config.js) and the largest player id skinIdForPlayer is asked for
SKINS_COUNT == 4
MaxPlayerId == 5

(* ---------------------- program constants ------------------------------ *)

SpawnX == 20
SpawnY == 20
PermanentDeathDelay == 600
DisconnectDelay == 5000

\* the players of the game, in the order the game iterates over them
PlayerOrder == <<1, 2>>
Players == {PlayerOrder[i] : i \in 1..Len(PlayerOrder)}
Directions == {"right", "down", "left", "up", "paused"}
DeathTypes == {"player", "area-bounds", "self"}
\* the instants at which performance.now() is read
SampleTimes ==
    {0, PermanentDeathDelay, PermanentDeathDelay + 1,
     PermanentDeathDelay + 1 + DisconnectDelay,
     PermanentDeathDelay + 1 + DisconnectDelay + 1}
\* the intents clients send: a direction and the offset of desiredPosition
Intents ==
    {<<"left", <<0, 0>>>>, <<"right", <<0, 0>>>>, <<"up", <<0, 0>>>>, <<"down", <<0, 0>>>>,
     <<"right", <<0, -2>>>>, <<"left", <<1, -2>>>>,
     <<"paused", <<1, -2>>>>, <<"paused", <<-1, 1>>>>}
DuelIntents ==
    {<<"left", <<0, 0>>>>, <<"right", <<0, -2>>>>, <<"paused", <<1, -2>>>>}
SoloPlayer == PlayerOrder[Len(PlayerOrder)]
\* the arguments of the die() calls made from outside the player
DieCalls == {<<"player", FALSE>>, <<"area-bounds", TRUE>>}

Vec2(x, y) == [x |-> x, y |-> y]
Min(a, b) == IF a < b THEN a ELSE b
Max(a, b) == IF a > b THEN a ELSE b

NoDeath == [dieTime |-> -1, type |-> "none"]

(* ------------------------ collaborator calls --------------------------- *)

NoEvent ==
    [name |-> "", player |-> 0, other |-> 0, type |-> "", flag |-> FALSE,
     pos |-> Vec2(0, 0), verts |-> <<>>,
     rect |-> [min |-> Vec2(0, 0), max |-> Vec2(0, 0)], dead |-> {}]

Emit(W, e) == [W EXCEPT !.events = Append(@, e)]

EventsNamed(evs, n) == {i \in 1..Len(evs) : evs[i].name = n}

(* ------------------------------ arena ---------------------------------- *)

\* arena.getTileValue(pos): the id owning the tile, 0 when unowned
getTileValue(tiles, pos) ==
    IF \E q \in Players : pos \in tiles[q]
    THEN CHOOSE q \in Players : pos \in tiles[q]
    ELSE 0

SpawnArea(pos) ==
    {Vec2(x, y) : x \in (pos.x - SpawnRadius)..(pos.x + SpawnRadius),
                  y \in (pos.y - SpawnRadius)..(pos.y + SpawnRadius)}

\* arena.fillPlayerSpawn(pos, id)
fillPlayerSpawn(tiles, pos, id) ==
    [q \in Players |-> IF q = id THEN tiles[q] \cup SpawnArea(pos)
                       ELSE tiles[q] \ SpawnArea(pos)]

\* util.checkTrailSegment(point, start, end): the point lies on the
\* axis-aligned segment from start to end, end points included
checkTrailSegment(point, start, end) ==
    \/ /\ start.x = end.x
       /\ point.x = start.x
       /\ point.y >= Min(start.y, end.y)
       /\ point.y <= Max(start.y, end.y)
    \/ /\ start.y = end.y
       /\ point.y = start.y
       /\ point.x >= Min(start.x, end.x)
       /\ point.x <= Max(start.x, end.x)

SegmentBox(a, b) ==
    {Vec2(x, y) : x \in Min(a.x, b.x)..Max(a.x, b.x), y \in Min(a.y, b.y)..Max(a.y, b.y)}

TrailTiles(verts) ==
    {verts[i] : i \in 1..Len(verts)} \cup
    UNION {{pt \in SegmentBox(verts[i], verts[i + 1]) :
               checkTrailSegment(pt, verts[i], verts[i + 1])} : i \in 1..(Len(verts) - 1)}

\* arena.fillPlayerTrail(vertices, id): the tiles underneath the trail
\* become the player's
fillPlayerTrail(tiles, verts, id) ==
    [q \in Players |-> IF q = id THEN tiles[q] \cup TrailTiles(verts)
                       ELSE tiles[q] \ TrailTiles(verts)]

\* arena.clearAllPlayerTiles(id)
clearAllPlayerTiles(tiles, id) == [tiles EXCEPT ![id] = {}]

(* ------------------------------ player --------------------------------- *)

\* field initialisers of class Player
NewPlayer ==
    [currentTileType |-> 0,
     currentPosition |-> Vec2(SpawnX, SpawnY),
     lastEdgeChunkSendX |-> SpawnX,
     lastEdgeChunkSendY |-> SpawnY,
     nextTileProgress |-> 0,
     currentDirection |-> "up",
     trailVertices |-> <<>>,
     trailBounds |-> [min |-> Vec2(0, 0), max |-> Vec2(0, 0)],
     movementQueue |-> <<>>,
     lastDeathState |-> NoDeath,
     permanentlyDead |-> FALSE,
     permanentlyDieTime |-> 0,
     allMyTilesCleared |-> FALSE]

isGeneratingTrail(pl) == Len(pl.trailVertices) > 0

dead(pl) == pl.lastDeathState # NoDeath

pointIsInTrailBounds(pl, point) ==
    /\ point.x >= pl.trailBounds.min.x
    /\ point.y >= pl.trailBounds.min.y
    /\ point.x <= pl.trailBounds.max.x
    /\ point.y <= pl.trailBounds.max.y

pointIsInTrail(pl, point, includeLastSegment) ==
    IF isGeneratingTrail(pl)
    THEN \/ \E i \in 1..(Len(pl.trailVertices) - 1) :
               checkTrailSegment(point, pl.trailVertices[i], pl.trailVertices[i + 1])
         \/ /\ includeLastSegment
            /\ checkTrailSegment(point, pl.trailVertices[Len(pl.trailVertices)],
                                 pl.currentPosition)
    ELSE /\ includeLastSegment
         /\ point = pl.currentPosition

\* skinIdForPlayer with the substitute taken modulo SKINS_COUNT
skinIdForPlayer_ModCount(id, skinId, otherId, otherSkinId) ==
    IF skinId # otherSkinId \/ otherId = id
    THEN skinId
    ELSE LET fakeSkinId == id % SKINS_COUNT
         IN  IF fakeSkinId >= otherSkinId - 1 THEN fakeSkinId + 1 ELSE fakeSkinId

\* this.skinIdForPlayer(otherPlayer): id and skinId are those of this player;
\* otherPlayer == this is the equality of the ids
skinIdForPlayer(id, skinId, otherId, otherSkinId) ==
    IF skinId # otherSkinId \/ otherId = id
    THEN skinId
    ELSE LET fakeSkinId == id % (SKINS_COUNT - 1)
         IN  IF fakeSkinId >= otherSkinId - 1 THEN fakeSkinId + 1 ELSE fakeSkinId

(* ------------------------- death lifecycle ----------------------------- *)

\* die() without the early return for a player that is already marked dead
die_NoLatch(W, p, deathType, sendPosition, now) ==
    Emit([W EXCEPT !.players[p].lastDeathState =
                       [dieTime |-> now, type |-> deathType]],
         [NoEvent EXCEPT !.name = "broadcastPlayerDeath", !.player = p,
                         !.type = deathType, !.flag = sendPosition])

die(W, p, deathType, sendPosition, now) ==
    IF dead(W.players[p]) THEN W
    ELSE Emit([W EXCEPT !.players[p].lastDeathState =
                            [dieTime |-> now, type |-> deathType]],
              [NoEvent EXCEPT !.name = "broadcastPlayerDeath", !.player = p,
                              !.type = deathType, !.flag = sendPosition])

\* #clearAllMyTiles without the early return of the latch
clearAllMyTiles_NoLatch(W, p) ==
    Emit([W EXCEPT !.players[p].allMyTilesCleared = TRUE,
                   !.tiles = clearAllPlayerTiles(@, p)],
         [NoEvent EXCEPT !.name = "clearAllPlayerTiles", !.player = p])

\* #clearAllMyTiles setting the latch without the call on the arena
clearAllMyTiles_KeepTiles(W, p) ==
    IF W.players[p].allMyTilesCleared THEN W
    ELSE [W EXCEPT !.players[p].allMyTilesCleared = TRUE]

clearAllMyTiles(W, p) ==
    IF W.players[p].allMyTilesCleared THEN W
    ELSE Emit([W EXCEPT !.players[p].allMyTilesCleared = TRUE,
                        !.tiles = clearAllPlayerTiles(@, p)],
              [NoEvent EXCEPT !.name = "clearAllPlayerTiles", !.player = p])

\* the end of #permanentlyDie: the assertion and the game over message
sendGameOver(W, p) ==
    IF ~dead(W.players[p])
    THEN Emit(W, [NoEvent EXCEPT !.name = "throw", !.player = p,
                                 !.type = "no death state is set"])
    ELSE Emit(W, [NoEvent EXCEPT !.name = "sendGameOver", !.player = p,
                                 !.type = W.players[p].lastDeathState.type])

\* #permanentlyDie without the early return of the latch
permanentlyDie_NoLatch(W, p, now) ==
    sendGameOver(clearAllMyTiles([W EXCEPT !.players[p].permanentlyDead = TRUE,
                                           !.players[p].permanentlyDieTime = now],
                                 p), p)

permanentlyDie(W, p, now) ==
    IF W.players[p].permanentlyDead THEN W
    ELSE sendGameOver(clearAllMyTiles([W EXCEPT !.players[p].permanentlyDead = TRUE,
                                                !.players[p].permanentlyDieTime = now],
                                      p), p)

removedFromGame(W, p) == clearAllMyTiles(W, p)

thrown(W) == EventsNamed(W.events, "throw") # {}

(* ------------------------- movement intents ---------------------------- *)

Horizontal(d) == d = "right" \/ d = "left"
Vertical(d) == d = "up" \/ d = "down"

\* checkNextMoveValidity without the test that re-applying the direction is refused
checkNextMoveValidity_Reapply(pl, desiredPosition, newDirection) ==
    IF Horizontal(pl.currentDirection) /\ Horizontal(newDirection) THEN FALSE
    ELSE IF Vertical(pl.currentDirection) /\ Vertical(newDirection) THEN FALSE
    ELSE IF newDirection = "paused" THEN TRUE
    ELSE IF Horizontal(pl.currentDirection) /\ desiredPosition.y # pl.currentPosition.y
         THEN FALSE
    ELSE IF Vertical(pl.currentDirection) /\ desiredPosition.x # pl.currentPosition.x
         THEN FALSE
    ELSE TRUE

\* checkNextMoveValidity with the two coordinates of the alignment test exchanged
checkNextMoveValidity_SwappedAxes(pl, desiredPosition, newDirection) ==
    IF Horizontal(pl.currentDirection) /\ Horizontal(newDirection) THEN FALSE
    ELSE IF Vertical(pl.currentDirection) /\ Vertical(newDirection) THEN FALSE
    ELSE IF pl.currentDirection = newDirection THEN FALSE
    ELSE IF newDirection = "paused" THEN TRUE
    ELSE IF Horizontal(pl.currentDirection) /\ desiredPosition.x # pl.currentPosition.x
         THEN FALSE
    ELSE IF Vertical(pl.currentDirection) /\ desiredPosition.y # pl.currentPosition.y
         THEN FALSE
    ELSE TRUE

checkNextMoveValidity(pl, desiredPosition, newDirection) ==
    IF Horizontal(pl.currentDirection) /\ Horizontal(newDirection) THEN FALSE
    ELSE IF Vertical(pl.currentDirection) /\ Vertical(newDirection) THEN FALSE
    ELSE IF pl.currentDirection = newDirection THEN FALSE
    ELSE IF newDirection = "paused" THEN TRUE
    ELSE IF Horizontal(pl.currentDirection) /\ desiredPosition.y # pl.currentPosition.y
         THEN FALSE
    ELSE IF Vertical(pl.currentDirection) /\ desiredPosition.x # pl.currentPosition.x
         THEN FALSE
    ELSE TRUE

\* the accepted branch of #drainMovementQueue, for the first item of the queue
applyMove(W, p, firstItem) ==
    LET pl == W.players[p]
        pl1 == [pl EXCEPT !.movementQueue = Tail(@),
                          !.currentPosition = firstItem.desiredPosition,
                          !.trailVertices = IF isGeneratingTrail(pl)
                                            THEN Append(@, firstItem.desiredPosition)
                                            ELSE @,
                          !.currentDirection = firstItem.direction]
    IN  Emit([W EXCEPT !.players[p] = pl1],
             [NoEvent EXCEPT !.name = "broadcastPlayerState", !.player = p,
                             !.type = firstItem.direction,
                             !.pos = firstItem.desiredPosition])

RECURSIVE drainMovementQueue(_, _)

\* #drainMovementQueue stopping at an invalid item instead of dropping it
drainMovementQueue_KeepInvalid(W, p) ==
    LET pl == W.players[p] IN
    IF Len(pl.movementQueue) <= 0 THEN W
    ELSE LET firstItem == Head(pl.movementQueue)
             valid == checkNextMoveValidity(pl, firstItem.desiredPosition,
                                            firstItem.direction)
         IN  IF ~valid THEN W
             ELSE drainMovementQueue(applyMove(W, p, firstItem), p)

drainMovementQueue(W, p) ==
    LET pl == W.players[p] IN
    IF Len(pl.movementQueue) <= 0 THEN W
    ELSE LET firstItem == Head(pl.movementQueue)
             valid == checkNextMoveValidity(pl, firstItem.desiredPosition,
                                            firstItem.direction)
         IN  IF ~valid
             THEN drainMovementQueue([W EXCEPT !.players[p].movementQueue = Tail(@)], p)
             ELSE drainMovementQueue(applyMove(W, p, firstItem), p)

clientPosUpdateRequested(W, p, direction, desiredPosition) ==
    drainMovementQueue(
        [W EXCEPT !.players[p].movementQueue =
                      Append(@, [direction |-> direction,
                                 desiredPosition |-> desiredPosition])], p)

(* ------------------------------- tick ---------------------------------- *)

\* game.getOverlappingTrailBoundsPlayers(pos): the players whose trail bounds
\* contain pos, in the game's iteration order
getOverlappingTrailBoundsPlayers(W, pos) ==
    SelectSeq(PlayerOrder, LAMBDA q : pointIsInTrailBounds(W.players[q], pos))

\* the for loop of #currentPositionChanged over the overlapping players
RECURSIVE hitPlayers(_, _, _, _)
hitPlayers(W, p, overlapping, now) ==
    IF overlapping = <<>> THEN W
    ELSE LET player == Head(overlapping)
             includeLastSegment == player # p
             killedSelf == player = p
         IN  IF pointIsInTrail(W.players[player], W.players[p].currentPosition,
                               includeLastSegment)
             THEN hitPlayers(
                      Emit(die(W, player, IF killedSelf THEN "self" ELSE "player",
                               killedSelf, now),
                           [NoEvent EXCEPT !.name = "broadcastHitLineAnimation",
                                           !.player = player, !.other = p]),
                      p, Tail(overlapping), now)
             ELSE hitPlayers(W, p, Tail(overlapping), now)

\* the four tests of #sendRequiredEdgeChunks, in order; c is the local state
\* [chunk, n, sx, sy]: the chunk variable, the number of rectangles computed so
\* far, and #lastEdgeChunkSendX / #lastEdgeChunkSendY
edgeRight(c, pos) ==
    IF pos.x >= c.sx + ChunkSize
    THEN [c EXCEPT !.chunk = [x |-> pos.x + ViewportSize,
                              y |-> c.sy - ViewportSize - ChunkSize,
                              w |-> ChunkSize, h |-> (ViewportSize + ChunkSize) * 2],
                   !.n = @ + 1, !.sx = pos.x]
    ELSE c

edgeLeft(c, pos) ==
    IF pos.x <= c.sx - ChunkSize
    THEN [c EXCEPT !.chunk = [x |-> pos.x - ViewportSize - ChunkSize,
                              y |-> c.sy - ViewportSize - ChunkSize,
                              w |-> ChunkSize, h |-> (ViewportSize + ChunkSize) * 2],
                   !.n = @ + 1, !.sx = pos.x]
    ELSE c

edgeDown(c, pos) ==
    IF pos.y >= c.sy + ChunkSize
    THEN [c EXCEPT !.chunk = [x |-> c.sx - ViewportSize - ChunkSize,
                              y |-> pos.y + ViewportSize,
                              w |-> (ViewportSize + ChunkSize) * 2, h |-> ChunkSize],
                   !.n = @ + 1, !.sy = pos.y]
    ELSE c

edgeUp(c, pos) ==
    IF pos.y <= c.sy - ChunkSize
    THEN [c EXCEPT !.chunk = [x |-> c.sx - ViewportSize - ChunkSize,
                              y |-> pos.y - ViewportSize - ChunkSize,
                              w |-> (ViewportSize + ChunkSize) * 2, h |-> ChunkSize],
                   !.n = @ + 1, !.sy = pos.y]
    ELSE c

\* the end of #sendRequiredEdgeChunks sending once per rectangle computed
sendChunk_EveryRectangle(W, p, c) ==
    LET sent == [NoEvent EXCEPT !.name = "sendChunk", !.player = p, !.other = c.n,
                                !.rect = [min |-> Vec2(c.chunk.x, c.chunk.y),
                                          max |-> Vec2(c.chunk.x + c.chunk.w,
                                                       c.chunk.y + c.chunk.h)]]
    IN  [W EXCEPT !.players[p].lastEdgeChunkSendX = c.sx,
                  !.players[p].lastEdgeChunkSendY = c.sy,
                  !.events = @ \o [i \in 1..c.n |-> sent]]

\* the end of #sendRequiredEdgeChunks: the fields are stored, the chunk is sent
sendChunk(W, p, c) ==
    IF c.n > 0
    THEN Emit([W EXCEPT !.players[p].lastEdgeChunkSendX = c.sx,
                        !.players[p].lastEdgeChunkSendY = c.sy],
              [NoEvent EXCEPT !.name = "sendChunk", !.player = p, !.other = c.n,
                              !.rect = [min |-> Vec2(c.chunk.x, c.chunk.y),
                                        max |-> Vec2(c.chunk.x + c.chunk.w,
                                                     c.chunk.y + c.chunk.h)]])
    ELSE W

sendRequiredEdgeChunks(W, p) ==
    sendChunk(W, p,
        edgeUp(edgeDown(edgeLeft(edgeRight(
            [chunk |-> [x |-> 0, y |-> 0, w |-> 0, h |-> 0], n |-> 0,
             sx |-> W.players[p].lastEdgeChunkSendX,
             sy |-> W.players[p].lastEdgeChunkSendY],
            W.players[p].currentPosition), W.players[p].currentPosition),
            W.players[p].currentPosition), W.players[p].currentPosition))

\* #currentPositionChanged, first part: the trail bounds
updateTrailBounds(W, p) ==
    LET pl == W.players[p]
        pos == pl.currentPosition
    IN  [W EXCEPT !.players[p].trailBounds =
            IF isGeneratingTrail(pl)
            THEN [min |-> Vec2(Min(pl.trailBounds.min.x, pos.x),
                               Min(pl.trailBounds.min.y, pos.y)),
                  max |-> Vec2(Max(pl.trailBounds.max.x, pos.x),
                               Max(pl.trailBounds.max.y, pos.y))]
            ELSE [min |-> pos, max |-> pos]]

\* the edge test of #currentPositionChanged taken one tile further out
checkArenaBounds_OuterEdge(W, p, now) ==
    IF \/ W.players[p].currentPosition.x < 0
       \/ W.players[p].currentPosition.y < 0
       \/ W.players[p].currentPosition.x >= ArenaWidth
       \/ W.players[p].currentPosition.y >= ArenaHeight
    THEN die(W, p, "area-bounds", TRUE, now)
    ELSE W

\* #currentPositionChanged, second part: the edge of the arena
checkArenaBounds(W, p, now) ==
    IF \/ W.players[p].currentPosition.x <= 0
       \/ W.players[p].currentPosition.y <= 0
       \/ W.players[p].currentPosition.x >= ArenaWidth - 1
       \/ W.players[p].currentPosition.y >= ArenaHeight - 1
    THEN die(W, p, "area-bounds", TRUE, now)
    ELSE W

\* #currentPositionChanged, third part: the trails the player is on
checkTrails(W, p, now) ==
    hitPlayers(W, p, getOverlappingTrailBoundsPlayers(W, W.players[p].currentPosition),
               now)

currentPositionChanged(W, p, now) ==
    sendRequiredEdgeChunks(
        checkTrails(checkArenaBounds(updateTrailBounds(W, p), p, now), p, now), p)

\* #updateCurrentTile: the player leaves its captured area
startTrail(W, p, tileValue) ==
    IF tileValue # p /\ ~isGeneratingTrail(W.players[p])
    THEN Emit([W EXCEPT !.players[p].trailVertices =
                            Append(@, W.players[p].currentPosition)],
              [NoEvent EXCEPT !.name = "broadcastPlayerTrail", !.player = p,
                              !.verts = <<W.players[p].currentPosition>>])
    ELSE W

\* the re-entry of #updateCurrentTile filling the trail without the closing point
closeTrail_NoClosingPoint(W, p, tileValue) ==
    IF tileValue = p /\ isGeneratingTrail(W.players[p])
    THEN IF W.players[p].allMyTilesCleared
         THEN Emit(W, [NoEvent EXCEPT !.name = "throw", !.player = p,
                           !.type = "player tiles have already been removed"])
         ELSE [W EXCEPT !.players[p].trailVertices = <<>>,
                        !.tiles = fillPlayerTrail(@, W.players[p].trailVertices, p),
                        !.events = @ \o
                            <<[NoEvent EXCEPT !.name = "fillPlayerTrail",
                                              !.player = p,
                                              !.verts = W.players[p].trailVertices],
                              [NoEvent EXCEPT !.name = "updateCapturedArea",
                                              !.player = p],
                              [NoEvent EXCEPT !.name = "broadcastPlayerTrail",
                                              !.player = p]>>]
    ELSE W

\* #updateCurrentTile: the player comes back into its captured area
closeTrail(W, p, tileValue) ==
    IF tileValue = p /\ isGeneratingTrail(W.players[p])
    THEN LET vertices == Append(W.players[p].trailVertices,
                                W.players[p].currentPosition)
         IN  IF W.players[p].allMyTilesCleared
             THEN Emit([W EXCEPT !.players[p].trailVertices = vertices],
                       [NoEvent EXCEPT !.name = "throw", !.player = p,
                                       !.type = "player tiles have already been removed"])
             ELSE [W EXCEPT !.players[p].trailVertices = <<>>,
                            !.tiles = fillPlayerTrail(@, vertices, p),
                            !.events = @ \o
                                <<[NoEvent EXCEPT !.name = "fillPlayerTrail",
                                                  !.player = p, !.verts = vertices],
                                  [NoEvent EXCEPT !.name = "updateCapturedArea",
                                                  !.player = p],
                                  [NoEvent EXCEPT !.name = "broadcastPlayerTrail",
                                                  !.player = p]>>]
    ELSE W

\* #updateCurrentTile: the observed tile value is kept, unless the fill threw
cacheTileType(W, p, tileValue) ==
    IF thrown(W) THEN W ELSE [W EXCEPT !.players[p].currentTileType = tileValue]

tileChanged(W, p, tileValue) ==
    cacheTileType(closeTrail(startTrail(W, p, tileValue), p, tileValue), p, tileValue)

updateCurrentTile(W, p) ==
    IF W.players[p].currentTileType # getTileValue(W.tiles, W.players[p].currentPosition)
    THEN tileChanged(W, p, getTileValue(W.tiles, W.players[p].currentPosition))
    ELSE W

\* the position one tile further in direction d
stepFrom(pos, d) ==
    IF d = "left" THEN Vec2(pos.x - 1, pos.y)
    ELSE IF d = "right" THEN Vec2(pos.x + 1, pos.y)
    ELSE IF d = "up" THEN Vec2(pos.x, pos.y - 1)
    ELSE IF d = "down" THEN Vec2(pos.x, pos.y + 1)
    ELSE pos

\* the body of the while loop of loop(), up to the change of position; the
\* "move" event records the new position, who was marked dead before the move,
\* the trail before the move and the arena value of the tile moved onto
stepOneTile(W, p) ==
    Emit([W EXCEPT !.players[p].nextTileProgress = @ - 1,
                   !.players[p].currentPosition =
                       stepFrom(@, W.players[p].currentDirection)],
         [NoEvent EXCEPT !.name = "move", !.player = p,
                         !.pos = stepFrom(W.players[p].currentPosition,
                                          W.players[p].currentDirection),
                         !.dead = {q \in Players : dead(W.players[q])},
                         !.verts = W.players[p].trailVertices,
                         !.other = getTileValue(W.tiles,
                                       stepFrom(W.players[p].currentPosition,
                                                W.players[p].currentDirection))])

\* one pass of the while loop of loop(): a move of one tile
moveOneTile(W, p, now) ==
    updateCurrentTile(currentPositionChanged(stepOneTile(W, p), p, now), p)

RECURSIVE moveWhile(_, _, _)
moveWhile(W, p, now) ==
    IF W.players[p].nextTileProgress > 1 /\ ~thrown(W)
    THEN moveWhile(moveOneTile(W, p, now), p, now)
    ELSE W

\* the movement of loop() without the test that the player is not dead
advancePlayer_DeadMoves(W, p, now, advance) ==
    IF W.players[p].currentDirection # "paused"
    THEN moveWhile([W EXCEPT !.players[p].nextTileProgress = @ + advance], p, now)
    ELSE W

\* loop(), first part: the movement
advancePlayer(W, p, now, advance) ==
    IF W.players[p].currentDirection # "paused" /\ ~dead(W.players[p])
    THEN moveWhile([W EXCEPT !.players[p].nextTileProgress = @ + advance], p, now)
    ELSE W

\* loop(), second part: permanent death
checkPermanentDeath_AtDelay(W, p, now) ==
    IF /\ dead(W.players[p])
       /\ now - W.players[p].lastDeathState.dieTime >= PermanentDeathDelay
    THEN permanentlyDie(W, p, now)
    ELSE W

checkPermanentDeath(W, p, now) ==
    IF /\ dead(W.players[p])
       /\ now - W.players[p].lastDeathState.dieTime > PermanentDeathDelay
    THEN permanentlyDie(W, p, now)
    ELSE W

\* loop(), third part: the connection is closed
checkDisconnect(W, p, now) ==
    IF /\ W.players[p].permanentlyDead
       /\ now - W.players[p].permanentlyDieTime > DisconnectDelay
    THEN Emit(W, [NoEvent EXCEPT !.name = "close", !.player = p])
    ELSE W

\* the death timers of loop(); an exception thrown by the movement ends loop()
deathTimers(W, p, now) ==
    IF thrown(W) THEN W
    ELSE checkDisconnect(checkPermanentDeath(W, p, now), p, now)

\* loop(now, dt): advance is dt * PLAYER_TRAVEL_SPEED, now is performance.now()
loop(W, p, now, advance) ==
    deathTimers(advancePlayer(W, p, now, advance), p, now)

(* --------------------------- state machine ----------------------------- *)

VARIABLES
    players,    \* player id -> the fields of its Player object
    tiles,      \* arena: player id -> the tiles it owns
    events,     \* the collaborator calls made by the last operation
    clock,      \* performance.now()
    closed,     \* the players whose connection.close() has been called
    removed,    \* the players on which removedFromGame() has been called
    lastOp,     \* the last operation, its input and the state it was called in
    ops,        \* number of calls so far that changed a player or the arena
    skinCall    \* the last skinIdForPlayer call: its receiver, argument and result

vars == <<players, tiles, events, clock, closed, removed, lastOp, ops, skinCall>>

NoSkinCall ==
    [called |-> FALSE, id |-> 0, skinId |-> 0, otherId |-> 0, otherSkinId |-> 0,
     result |-> 0]

NoOp ==
    [op |-> "init", player |-> 0, input |-> "", accepted |-> FALSE,
     advance |-> 0, type |-> "", flag |-> FALSE,
     prevDirection |-> "", prevPosition |-> Vec2(0, 0), wasDead |-> FALSE]

OpOf(name, p) ==
    [NoOp EXCEPT !.op = name, !.player = p,
                 !.prevDirection = players[p].currentDirection,
                 !.prevPosition = players[p].currentPosition,
                 !.wasDead = dead(players[p])]

\* the desiredPosition lies on the line the player travels along
OnLineOfTravel(pl, desiredPosition) ==
    /\ Horizontal(pl.currentDirection) => desiredPosition.y = pl.currentPosition.y
    /\ Vertical(pl.currentDirection) => desiredPosition.x = pl.currentPosition.x

\* what kind of request an intent is, in the state it arrives in
InputKind(pl, direction, desiredPosition) ==
    IF \/ Horizontal(pl.currentDirection) /\ Horizontal(direction)
       \/ Vertical(pl.currentDirection) /\ Vertical(direction)
       \/ pl.currentDirection = direction
    THEN "sameAxis"
    ELSE IF direction = "paused" THEN "pause"
    ELSE IF pl.currentDirection = "paused" THEN "resume"
    ELSE IF OnLineOfTravel(pl, desiredPosition) THEN "turnAligned"
    ELSE "turnMisaligned"

\* the constructor, run for every player in the game's order
RECURSIVE spawnAll(_, _)
spawnAll(t, order) ==
    IF order = <<>> THEN t
    ELSE spawnAll(fillPlayerSpawn(t, NewPlayer.currentPosition, Head(order)), Tail(order))

Init ==
    /\ players = [p \in Players |-> NewPlayer]
    /\ tiles = spawnAll([p \in Players |-> {}], PlayerOrder)
    /\ events = <<>>
    /\ clock = 0
    /\ closed = {}
    /\ removed = {}
    /\ lastOp = NoOp
    /\ ops = 0
    /\ skinCall = NoSkinCall

World == [players |-> players, tiles |-> tiles, events |-> <<>>]

Changes(W) == W.players # players \/ W.tiles # tiles

\* the call's result becomes the state; a call that changes a player or the
\* arena needs room in the budget of such calls
Commit(W, budget) ==
    /\ Changes(W) => ops < budget
    /\ players' = W.players
    /\ tiles' = W.tiles
    /\ events' = W.events
    /\ closed' = closed \cup {W.events[i].player : i \in EventsNamed(W.events, "close")}
    /\ ops' = IF Changes(W) THEN ops + 1 ELSE ops
    /\ UNCHANGED skinCall

DesiredPosition(p, off) ==
    Vec2(players[p].currentPosition.x + off[1], players[p].currentPosition.y + off[2])

ClientPosUpdateRequested(p, direction, off, budget) ==
    /\ p \notin closed
    /\ Commit(clientPosUpdateRequested(World, p, direction, DesiredPosition(p, off)),
              budget)
    /\ lastOp' = [OpOf("clientPosUpdateRequested", p) EXCEPT
                     !.input = InputKind(players[p], direction, DesiredPosition(p, off)),
                     !.accepted = EventsNamed(events', "broadcastPlayerState") # {}]
    /\ UNCHANGED <<clock, removed>>

Loop(p, advance, budget) ==
    /\ Commit(loop(World, p, clock, advance), budget)
    /\ lastOp' = [OpOf("loop", p) EXCEPT !.advance = advance]
    /\ UNCHANGED <<clock, removed>>

DieCall(p, deathType, sendPosition, budget) ==
    /\ Commit(die(World, p, deathType, sendPosition, clock), budget)
    /\ lastOp' = [OpOf("die", p) EXCEPT !.type = deathType, !.flag = sendPosition]
    /\ UNCHANGED <<clock, removed>>

RemovedFromGame(p, budget) ==
    /\ p \notin removed
    /\ Commit(removedFromGame(World, p), budget)
    /\ removed' = removed \cup {p}
    /\ lastOp' = OpOf("removedFromGame", p)
    /\ UNCHANGED clock

\* performance.now() advances to a later sampled instant; before the first
\* death no code reads it
TimePasses(t) ==
    /\ \E p \in Players : dead(players[p])
    /\ t > clock
    /\ clock' = t
    /\ UNCHANGED <<players, tiles, events, closed, removed, lastOp, ops, skinCall>>

(* The whole game: both players, every call, MaxOps changing calls.        *)
Next ==
    \/ \E p \in Players, i \in Intents : ClientPosUpdateRequested(p, i[1], i[2], MaxOps)
    \/ \E p \in Players, advance \in 1..MaxAdvance : Loop(p, advance, MaxOps)
    \/ \E p \in Players, c \in DieCalls : DieCall(p, c[1], c[2], MaxOps)
    \/ \E p \in Players : RemovedFromGame(p, MaxOps)
    \/ \E t \in SampleTimes : TimePasses(t)

Spec == Init /\ [][Next]_vars

(* One player on its own, followed further: the player that spawned last   *)
(* and so owns the spawn tiles. The other player stays where it spawned.   *)
SoloNext ==
    \/ \E i \in Intents : ClientPosUpdateRequested(SoloPlayer, i[1], i[2], MaxSoloOps)
    \/ \E advance \in 1..MaxAdvance : Loop(SoloPlayer, advance, MaxSoloOps)
    \/ \E c \in DieCalls : DieCall(SoloPlayer, c[1], c[2], MaxSoloOps)
    \/ RemovedFromGame(SoloPlayer, MaxSoloOps)

SpecSolo == Init /\ [][SoloNext]_vars

(* Two players crossing each other's trails, followed further with fewer   *)
(* kinds of intents.                                                       *)
DuelNext ==
    \/ \E p \in Players, i \in DuelIntents :
           ClientPosUpdateRequested(p, i[1], i[2], MaxDuelOps)
    \/ \E p \in Players, advance \in 2..MaxAdvance : Loop(p, advance, MaxDuelOps)

SpecDuel == Init /\ [][DuelNext]_vars

(* The player on its own with a client that only ever asks to pause, and   *)
(* the ticks of the game: a paused player keeps being ticked as long as a  *)
(* loop() call would change something.                                     *)
PauseIntents == {i \in Intents : i[1] = "paused"}

PausedTick ==
    /\ players[SoloPlayer].currentDirection = "paused"
    /\ \E advance \in 1..MaxAdvance : Loop(SoloPlayer, advance, MaxPauseOps)

PauseNext ==
    \/ \E i \in PauseIntents :
           ClientPosUpdateRequested(SoloPlayer, i[1], i[2], MaxPauseOps)
    \/ \E advance \in 1..MaxAdvance : Loop(SoloPlayer, advance, MaxPauseOps)

SpecTicking == Init /\ [][PauseNext]_vars /\ WF_vars(PausedTick)

(* The colour a player shows to another: every receiver, argument and     *)
(* pair of skin ids; a player asked about itself has one skin id.          *)
SkinIdForPlayer(id, skinId, otherId, otherSkinId) ==
    /\ otherId = id => otherSkinId = skinId
    /\ skinCall' = [called |-> TRUE, id |-> id, skinId |-> skinId,
                    otherId |-> otherId, otherSkinId |-> otherSkinId,
                    result |-> skinIdForPlayer(id, skinId, otherId, otherSkinId)]
    /\ UNCHANGED <<players, tiles, events, clock, closed, removed, lastOp, ops>>

SkinNext ==
    \E id \in 0..MaxPlayerId, otherId \in 0..MaxPlayerId :
        \E skinId \in 0..(SKINS_COUNT - 1), otherSkinId \in 0..(SKINS_COUNT - 1) :
            SkinIdForPlayer(id, skinId, otherId, otherSkinId)

SpecSkin == Init /\ [][SkinNext]_vars

(* ------------------------------ claims --------------------------------- *)

\* the step is a call of op on player p (time does not pass during a call)
Called(op, p) == lastOp'.op = op /\ lastOp'.player = p /\ clock' = clock

\* the last call was op on player p
LastCall(op, p) == lastOp.op = op /\ lastOp.player = p

AxisOf(d) == IF Horizontal(d) THEN "horizontal"
             ELSE IF Vertical(d) THEN "vertical" ELSE "paused"

\* the desired positions the validator is probed with, around a position
ProbeReach == 1
Probes(pos) ==
    {Vec2(pos.x + dx, pos.y + dy) : dx \in -ProbeReach..ProbeReach,
                                    dy \in -ProbeReach..ProbeReach}

\* C5: every accepted intent takes the direction from one axis to the other,
\* or to or from paused: never to the same axis, never to the same direction;
\* and nothing but an accepted intent changes the direction.
C5_AcceptedTurnsAlternate ==
    [][\A p \in Players :
          /\ (Called("clientPosUpdateRequested", p) /\ lastOp'.accepted)
                => AxisOf(players'[p].currentDirection) # AxisOf(players[p].currentDirection)
          /\ players'[p].currentDirection # players[p].currentDirection
                => (Called("clientPosUpdateRequested", p) /\ lastOp'.accepted)]_vars

\* an intent was accepted that turned a player from horizontal to vertical
C5_Witness ==
    \E p \in Players :
        /\ LastCall("clientPosUpdateRequested", p) /\ lastOp.accepted
        /\ Horizontal(lastOp.prevDirection)
        /\ Vertical(players[p].currentDirection)

\* C6 as stated: a horizontal-to-vertical turn is accepted exactly when the
\* desired x is the current x, a vertical-to-horizontal turn exactly when the
\* desired y is the current y.
C6_AsStated ==
    \A p \in Players, d \in Directions : \A pos \in Probes(players[p].currentPosition) :
        LET pl == players[p] IN
        /\ (Horizontal(pl.currentDirection) /\ Vertical(d))
              => (checkNextMoveValidity(pl, pos, d) <=> pos.x = pl.currentPosition.x)
        /\ (Vertical(pl.currentDirection) /\ Horizontal(d))
              => (checkNextMoveValidity(pl, pos, d) <=> pos.y = pl.currentPosition.y)

\* C6 amended: a horizontal-to-vertical turn is accepted exactly when the
\* desired y is the current y, a vertical-to-horizontal turn exactly when the
\* desired x is the current x (the desired position is on the line of travel).
C6_TurnNeedsLineOfTravel ==
    \A p \in Players, d \in Directions : \A pos \in Probes(players[p].currentPosition) :
        LET pl == players[p] IN
        /\ (Horizontal(pl.currentDirection) /\ Vertical(d))
              => (checkNextMoveValidity(pl, pos, d) <=> pos.y = pl.currentPosition.y)
        /\ (Vertical(pl.currentDirection) /\ Horizontal(d))
              => (checkNextMoveValidity(pl, pos, d) <=> pos.x = pl.currentPosition.x)

\* a vertical-to-horizontal turn was accepted at a desired position further
\* along the column the player travelled in
C6_Witness ==
    \E p \in Players :
        /\ LastCall("clientPosUpdateRequested", p) /\ lastOp.accepted
        /\ Vertical(lastOp.prevDirection)
        /\ Horizontal(players[p].currentDirection)
        /\ players[p].currentPosition.x = lastOp.prevPosition.x
        /\ players[p].currentPosition.y # lastOp.prevPosition.y

\* C7: an intent for a perpendicular turn whose desired position is off the
\* line of travel changes nothing of the player (direction, position, trail),
\* broadcasts no player state and is gone from the queue afterwards.
C7_MisalignedIntentDropped ==
    \A p \in Players, d \in Directions : \A pos \in Probes(players[p].currentPosition) :
        InputKind(players[p], d, pos) = "turnMisaligned" =>
            LET W == clientPosUpdateRequested(World, p, d, pos) IN
            /\ W.players[p].currentDirection = players[p].currentDirection
            /\ W.players[p].currentPosition = players[p].currentPosition
            /\ W.players[p].trailVertices = players[p].trailVertices
            /\ W.players[p].movementQueue = <<>>
            /\ EventsNamed(W.events, "broadcastPlayerState") = {}

\* a misaligned turn was requested of a player, and refused
C7_Witness ==
    \E p \in Players :
        /\ LastCall("clientPosUpdateRequested", p)
        /\ lastOp.input = "turnMisaligned"
        /\ ~lastOp.accepted
        /\ players[p].movementQueue = <<>>

\* the calls of the named collaborator method for player p in a call log
CallsFor(evs, n, p) == {i \in EventsNamed(evs, n) : evs[i].player = p}

\* C3 as stated: for a player marked dead at t, a loop() call leaves it
\* permanently dead exactly when it runs at t+600 or later, and calls
\* connection.close() exactly when it runs at t+5600 or later.
C3_AsStated ==
    [][\A p \in Players :
          (Called("loop", p) /\ dead(players'[p])) =>
              LET t == players'[p].lastDeathState.dieTime IN
              /\ players'[p].permanentlyDead <=> clock >= t + PermanentDeathDelay
              /\ CallsFor(events', "close", p) # {}
                    <=> clock >= t + PermanentDeathDelay + DisconnectDelay]_vars

\* C3 amended: for a player marked dead at t, a loop() call leaves it
\* permanently dead exactly when it runs later than t+600; it calls
\* connection.close() exactly when it runs more than 5000 after the loop()
\* call that made the player permanently dead, and so never at t+5600 or before.
C3_TimersAreStrictAndChained ==
    [][\A p \in Players :
          (Called("loop", p) /\ dead(players'[p])) =>
              LET t == players'[p].lastDeathState.dieTime IN
              /\ players'[p].permanentlyDead <=> clock > t + PermanentDeathDelay
              /\ CallsFor(events', "close", p) # {}
                    <=> /\ players'[p].permanentlyDead
                        /\ clock > players'[p].permanentlyDieTime + DisconnectDelay
              /\ CallsFor(events', "close", p) # {}
                    => clock > t + PermanentDeathDelay + DisconnectDelay]_vars

\* a loop() call has closed the connection of a permanently dead player
C3_Witness ==
    \E p \in Players :
        /\ LastCall("loop", p)
        /\ players[p].permanentlyDead
        /\ CallsFor(events, "close", p) # {}

OnBoundary(pos) ==
    \/ pos.x <= 0
    \/ pos.y <= 0
    \/ pos.x >= ArenaWidth - 1
    \/ pos.y >= ArenaHeight - 1

\* the moves of one tile that a loop() call made with player p, in a call log
MovesOf(evs, p) == CallsFor(evs, "move", p)

\* the log holds exactly one death of p, of this type and with this flag
OneDeath(evs, p, deathType, sendPosition) ==
    /\ Cardinality(CallsFor(evs, "broadcastPlayerDeath", p)) = 1
    /\ \A i \in CallsFor(evs, "broadcastPlayerDeath", p) :
          evs[i].type = deathType /\ evs[i].flag = sendPosition

C8_AsStated ==
    \A p \in Players :
        (/\ LastCall("loop", p) \/ LastCall("clientPosUpdateRequested", p)
         /\ ~thrown([events |-> events]))
        => (players[p].trailVertices = <<>>
              <=> getTileValue(tiles, players[p].currentPosition) = p)

\* the box contains the point
InBox(box, pos) ==
    /\ box.min.x <= pos.x /\ pos.x <= box.max.x
    /\ box.min.y <= pos.y /\ pos.y <= box.max.y

\* C9 as stated: while a player is generating a trail, trailBounds contains
\* every vertex of the trail and the current position.
C9_AsStated ==
    \A p \in Players :
        isGeneratingTrail(players[p]) =>
            /\ InBox(players[p].trailBounds, players[p].currentPosition)
            /\ \A i \in 1..Len(players[p].trailVertices) :
                  InBox(players[p].trailBounds, players[p].trailVertices[i])

\* C10 as stated: while a player is not generating a trail, trailBounds is
\* the box whose min and max are the current position.
C10_AsStated ==
    \A p \in Players :
        ~isGeneratingTrail(players[p]) =>
            /\ players[p].trailBounds.min = players[p].currentPosition
            /\ players[p].trailBounds.max = players[p].currentPosition

\* the point lies on the segment from a to b and is neither a nor b
StrictlyBetween(point, a, b) ==
    /\ checkTrailSegment(point, a, b)
    /\ point # a
    /\ point # b

\* the point lies strictly between two consecutive vertices of the trail
CrossesTrail(pl, point) ==
    \E i \in 1..(Len(pl.trailVertices) - 1) :
        StrictlyBetween(point, pl.trailVertices[i], pl.trailVertices[i + 1])

\* C1 as stated: when a move in loop() puts player m on a point strictly
\* between two consecutive vertices of the trail of another player q that is
\* not yet marked dead, q is marked dead with type player by one
\* broadcastPlayerDeath without the position, and one
\* broadcastHitLineAnimation(q, m) is issued.
C1_AsStated ==
    [][\A m \in Players, q \in Players :
          (/\ Called("loop", m)
           /\ q # m
           /\ \E i \in MovesOf(events', m) :
                  /\ CrossesTrail(players[q], events'[i].pos)
                  /\ q \notin events'[i].dead)
          => /\ OneDeath(events', q, "player", FALSE)
             /\ players'[q].lastDeathState.type = "player"
             /\ \E i \in CallsFor(events', "broadcastHitLineAnimation", q) :
                    events'[i].other = m]_vars

\* the calls a loop() call made after move i of player p and before its next move
AfterMove(evs, p, i) ==
    {j \in (i + 1)..Len(evs) : \A k \in MovesOf(evs, p) : k <= i \/ k > j}

\* the trail of player p when move i of the log was completed
TrailAfterMove(evs, pl, p, i) ==
    IF \E k \in MovesOf(evs, p) : k > i
    THEN evs[CHOOSE k \in MovesOf(evs, p) :
                 k > i /\ \A l \in MovesOf(evs, p) : l <= i \/ l >= k].verts
    ELSE pl.trailVertices

\* C11: when a player generating a trail with vertices V moves onto a tile the
\* arena gives its own id for, that move calls arena.fillPlayerTrail exactly
\* once, with V followed by the new position and with the id of the player,
\* and the trail is empty when the move is completed.
C11_ReentryFillsOnce ==
    [][\A p \in Players :
          Called("loop", p) =>
              \A i \in MovesOf(events', p) :
                  (events'[i].verts # <<>> /\ events'[i].other = p) =>
                      /\ Cardinality({j \in AfterMove(events', p, i) :
                                         events'[j].name = "fillPlayerTrail"}) = 1
                      /\ \A j \in AfterMove(events', p, i) :
                            events'[j].name = "fillPlayerTrail" =>
                                /\ events'[j].player = p
                                /\ events'[j].verts =
                                       Append(events'[i].verts, events'[i].pos)
                      /\ TrailAfterMove(events', players'[p], p, i) = <<>>]_vars

\* a loop() call has moved a player with a trail back onto one of its tiles
C11_Witness ==
    \E p \in Players :
        /\ LastCall("loop", p)
        /\ \E i \in MovesOf(events, p) :
              /\ Len(events[i].verts) >= 2
              /\ events[i].other = p
        /\ \E j \in EventsNamed(events, "fillPlayerTrail") : events[j].player = p
        /\ players[p].trailVertices = <<>>

\* C12: arena.clearAllPlayerTiles(id) is called only while the latch of the
\* player is unset, once in that call, and sets the latch for good, so at most
\* once per player over a run; and it has been called by the time the player
\* is permanently dead or removedFromGame() has been called on it.
C12_TilesClearedOnce ==
    [][\A p \in Players :
          /\ (clock' = clock /\ CallsFor(events', "clearAllPlayerTiles", p) # {})
                => /\ ~players[p].allMyTilesCleared
                   /\ Cardinality(CallsFor(events', "clearAllPlayerTiles", p)) = 1
          /\ (players'[p].allMyTilesCleared /\ ~players[p].allMyTilesCleared)
                => Cardinality(CallsFor(events', "clearAllPlayerTiles", p)) = 1
          /\ players[p].allMyTilesCleared => players'[p].allMyTilesCleared
          /\ (players'[p].permanentlyDead \/ p \in removed')
                => (players'[p].allMyTilesCleared /\ tiles'[p] = {})]_vars

\* removedFromGame() was called on a player that was permanently dead already,
\* and cleared nothing again
C12_Witness ==
    \E p \in Players :
        /\ LastCall("removedFromGame", p)
        /\ players[p].permanentlyDead
        /\ players[p].allMyTilesCleared
        /\ CallsFor(events, "clearAllPlayerTiles", p) = {}

\* C13 as stated: asked about another player with the same skin id, a
\* player never answers with the skin id of that other player.
C13_AsStated ==
    (/\ skinCall.called
     /\ skinCall.otherId # skinCall.id
     /\ skinCall.otherSkinId = skinCall.skinId)
    => skinCall.result # skinCall.otherSkinId

\* C14: for every player id from 0 and every pair of skin ids in
\* [0, SKINS_COUNT), the answer of skinIdForPlayer is in [0, SKINS_COUNT).
C14_SkinIdInRange ==
    skinCall.called => skinCall.result \in 0..(SKINS_COUNT - 1)

\* two players with the same skin id: the substitute was shifted up to the
\* last skin id
C14_Witness ==
    /\ skinCall.called
    /\ skinCall.otherId # skinCall.id
    /\ skinCall.otherSkinId = skinCall.skinId
    /\ skinCall.result = SKINS_COUNT - 1
    /\ skinCall.result # skinCall.skinId

\* C15: the assertion of the re-entry is never met: no loop() call throws
\* "player tiles have already been removed", and no move of a player whose
\* tiles-cleared latch is set goes onto a tile of its own id while it is
\* generating a trail (whether or not loop() runs after removedFromGame()).
C15_NoFillAfterClear ==
    [][\A p \in Players :
          /\ \A i \in EventsNamed(events', "throw") :
                events'[i].type # "player tiles have already been removed"
          /\ (Called("loop", p) /\ players[p].allMyTilesCleared) =>
                \A i \in MovesOf(events', p) :
                    ~(events'[i].verts # <<>> /\ events'[i].other = p)]_vars

\* a player whose tiles were cleared has moved, with a trail, onto a tile of
\* what was its spawn area
C15_Witness ==
    \E p \in Players :
        /\ LastCall("loop", p)
        /\ players[p].allMyTilesCleared
        /\ \E i \in MovesOf(events, p) :
              /\ events[i].verts # <<>>
              /\ events[i].pos \in SpawnArea(Vec2(SpawnX, SpawnY))
        /\ ~thrown([events |-> events])

\* C16: connection.sendGameOver is sent only by the loop() call that makes a
\* player permanently dead, once, to a player that was marked dead before the
\* call and whose tiles are cleared by then, with the death type the player
\* was marked with; that call always sends it, and a permanently dead player
\* stays permanently dead, so it is never sent again.
C16_GameOverSentOnce ==
    [][\A p \in Players :
          /\ (clock' = clock /\ CallsFor(events', "sendGameOver", p) # {})
                => /\ Called("loop", p)
                   /\ dead(players[p])
                   /\ ~players[p].permanentlyDead
                   /\ players'[p].permanentlyDead
                   /\ players'[p].allMyTilesCleared
                   /\ tiles'[p] = {}
                   /\ Cardinality(CallsFor(events', "sendGameOver", p)) = 1
                   /\ \A i \in CallsFor(events', "sendGameOver", p) :
                         /\ events'[i].type = players[p].lastDeathState.type
                         /\ \A j \in CallsFor(events', "clearAllPlayerTiles", p) : j < i
          /\ (players'[p].permanentlyDead /\ ~players[p].permanentlyDead)
                => Cardinality(CallsFor(events', "sendGameOver", p)) = 1
          /\ players[p].permanentlyDead => players'[p].permanentlyDead]_vars

\* a loop() call has made a player permanently dead, cleared its tiles and
\* sent it the game over message
C16_Witness ==
    \E p \in Players :
        /\ LastCall("loop", p)
        /\ players[p].permanentlyDead
        /\ \E i \in CallsFor(events, "sendGameOver", p) :
              /\ events[i].type = players[p].lastDeathState.type
              /\ \E j \in CallsFor(events, "clearAllPlayerTiles", p) : j < i

\* C17 as stated: one loop() call sends at most one chunk to the connection.
C17_AsStated ==
    [][\A p \in Players :
          Called("loop", p) => Cardinality(CallsFor(events', "sendChunk", p)) <= 1]_vars

\* the x threshold, the y threshold of the edge chunks is crossed at pos
XCrossed(pl, pos) ==
    \/ pos.x >= pl.lastEdgeChunkSendX + ChunkSize
    \/ pos.x <= pl.lastEdgeChunkSendX - ChunkSize

YCrossed(pl, pos) ==
    \/ pos.y >= pl.lastEdgeChunkSendY + ChunkSize
    \/ pos.y <= pl.lastEdgeChunkSendY - ChunkSize

\* the world with player p one tile further in direction d
Stepped(p, d) == [World EXCEPT !.players[p].currentPosition = stepFrom(@, d)]

\* C17 amended: each grid-unit move of a loop() call sends at most one chunk,
\* so a loop() call sends at most as many chunks as it makes moves; a move
\* sends a chunk exactly when a threshold is crossed, and when the thresholds
\* of both axes are crossed in one move only the rectangle computed last, the
\* strip above or below, is sent.
C17_OneChunkPerMove ==
    [][\A p \in Players :
          /\ Called("loop", p) =>
                /\ \A i \in MovesOf(events', p) :
                      Cardinality({j \in AfterMove(events', p, i) :
                                     events'[j].name = "sendChunk"}) <= 1
                /\ Cardinality(CallsFor(events', "sendChunk", p))
                      <= Cardinality(MovesOf(events', p))
          /\ \A d \in Directions :
                LET pl == players[p]
                    pos == stepFrom(pl.currentPosition, d)
                    W == sendRequiredEdgeChunks(Stepped(p, d), p)
                    sent == CallsFor(W.events, "sendChunk", p)
                IN  /\ Cardinality(sent) =
                          IF XCrossed(pl, pos) \/ YCrossed(pl, pos) THEN 1 ELSE 0
                    /\ \A j \in sent :
                          LET rect == W.events[j].rect IN
                          IF YCrossed(pl, pos)
                          THEN /\ rect.max.y - rect.min.y = ChunkSize
                               /\ rect.max.x - rect.min.x = (ViewportSize + ChunkSize) * 2
                               /\ rect.min.x = W.players[p].lastEdgeChunkSendX
                                                   - ViewportSize - ChunkSize
                               /\ XCrossed(pl, pos)
                                     => W.players[p].lastEdgeChunkSendX = pos.x
                          ELSE /\ rect.max.x - rect.min.x = ChunkSize
                               /\ rect.max.y - rect.min.y = (ViewportSize + ChunkSize) * 2]_vars

\* a loop() call made one move that crossed the thresholds of both axes and
\* sent one chunk, the strip above or below
C17_Witness ==
    \E p \in Players :
        /\ LastCall("loop", p)
        /\ Cardinality(MovesOf(events, p)) = 1
        /\ Cardinality(CallsFor(events, "sendChunk", p)) = 1
        /\ lastOp.prevPosition.x # players[p].currentPosition.x
        /\ players[p].lastEdgeChunkSendX = players[p].currentPosition.x
        /\ players[p].lastEdgeChunkSendY = players[p].currentPosition.y
        /\ \A j \in CallsFor(events, "sendChunk", p) :
              /\ events[j].other = 2
              /\ events[j].rect.max.y - events[j].rect.min.y = ChunkSize

\* C18 as stated: a player that was struck by another player's move (marked
\* dead with type player) still advances in its own loop() call of that tick
\* when it is not paused and the tick covers a tile.
C18_AsStated ==
    [][\A p \in Players :
          (/\ Called("loop", p)
           /\ dead(players[p])
           /\ players[p].lastDeathState.type = "player"
           /\ players[p].lastDeathState.dieTime = clock
           /\ players[p].currentDirection # "paused"
           /\ lastOp'.advance >= 2)
          => MovesOf(events', p) # {}]_vars

\* C18 amended: a player that is marked dead when its loop() call begins
\* makes no move in that call and strikes nobody: its position and trail stay
\* as they are, no death is registered and no hit line is announced.
C18_StruckPlayerStands ==
    [][\A p \in Players :
          (Called("loop", p) /\ dead(players[p])) =>
              /\ MovesOf(events', p) = {}
              /\ players'[p].currentPosition = players[p].currentPosition
              /\ players'[p].trailVertices = players[p].trailVertices
              /\ EventsNamed(events', "broadcastPlayerDeath") = {}
              /\ EventsNamed(events', "broadcastHitLineAnimation") = {}
              /\ \A q \in Players : dead(players'[q]) => dead(players[q])]_vars

\* loop() was called, in the tick of its death, on a player that another
\* player's move had struck and that was heading somewhere
C18_Witness ==
    \E p \in Players :
        /\ LastCall("loop", p)
        /\ lastOp.wasDead
        /\ lastOp.advance >= 2
        /\ players[p].lastDeathState = [dieTime |-> clock, type |-> "player"]
        /\ players[p].currentDirection # "paused"
        /\ \E q \in Players : q # p /\ ~dead(players[q])

\* the last call was an accepted pause of player p
PauseAccepted(p) ==
    /\ LastCall("clientPosUpdateRequested", p)
    /\ lastOp.input = "pause"
    /\ lastOp.accepted
    /\ players[p].currentDirection = "paused"

\* the pause has put player p, travelling along column c, off that column
PausedOffColumn(p, c) ==
    /\ PauseAccepted(p)
    /\ Vertical(lastOp.prevDirection)
    /\ lastOp.prevPosition.x = c
    /\ players[p].currentPosition.x # c

\* the pause has put player p, travelling along row r, off that row
PausedOffRow(p, r) ==
    /\ PauseAccepted(p)
    /\ Horizontal(lastOp.prevDirection)
    /\ lastOp.prevPosition.y = r
    /\ players[p].currentPosition.y # r

\* C19 as stated: after a pause was accepted with a desiredPosition off the
\* line the player travelled along, the position of the player is eventually
\* back on that line.
C19_AsStated ==
    \A p \in Players :
        /\ \A c \in 0..(ArenaWidth - 1) :
              PausedOffColumn(p, c) ~> (players[p].currentPosition.x = c)
        /\ \A r \in 0..(ArenaHeight - 1) :
              PausedOffRow(p, r) ~> (players[p].currentPosition.y = r)

\* C20 as stated: once a player is marked dead its position, direction and
\* trail never change: no call changes them for a player that is dead, and
\* no move of a loop() call is made by a player that is dead by then.
C20_AsStated ==
    [][\A p \in Players :
          /\ dead(players[p]) =>
                /\ players'[p].currentPosition = players[p].currentPosition
                /\ players'[p].currentDirection = players[p].currentDirection
                /\ players'[p].trailVertices = players[p].trailVertices
          /\ Called("loop", p) =>
                \A i \in MovesOf(events', p) : p \notin events'[i].dead]_vars

====
